---- MODULE Spec2Model ----
(***************************************************************************)
(* Turn engine of the Dixit game: Game / Player (game.py), the decision    *)
(* helpers of ai_interface.py, the command line loop of main.py and the    *)
(* phase machine of app.py.                                                *)
(***************************************************************************)
EXTENDS Integers, Sequences, FiniteSets, TLC

VARIABLES
    driver,                 \* "main" (main.py loop) or "app" (app.py script)
    players,                \* Game.players, the roster, by name
    hand_size, max_score,   \* Game.hand_size, Game.max_score
    pool_size,              \* number of cards Game.__init__ loaded
    hand, score,            \* Player.hand, Player.score
    deck, discard_pile,     \* Game.deck, Game.discard_pile
    board,                  \* Game.board
    storyteller_index,      \* Game.storyteller_index
    current_clue,           \* Game.current_clue ("", "clue" or "AI Clue")
    pc,                     \* position of main.py / Game.play_turn
    loop_i,                 \* position of a "for player in self.players" loop
    storyteller_submission, \* local of play_turn
    player_submissions,     \* local of play_turn
    guesses,                \* local of play_turn
    winners,                \* local of main.py: the list get_winner returned
    turn_phase,             \* st.session_state.turn_phase
    player_actions,         \* st.session_state.player_actions
    board_cards_info,       \* st.session_state.board_cards_info
    session_clue,           \* st.session_state.current_clue
    storyteller_selected_card_index,
    storyteller_submitted_card,
    human_submitted_card,
    game_over,              \* st.session_state.game_over
    rerun,                  \* app.py: st.rerun() was called, the script runs again
    over_scores,            \* history: the scores when is_game_over first held
                            \* between two rounds, EmptyMap before that
    api_key,                \* ai_interface.LLAMA_API_KEY is set
    max_retries,            \* _call_llama_api: parameter max_retries
    attempt,                \* _call_llama_api: loop variable
    api_pc,                 \* position of _call_llama_api
    api_result,             \* what _call_llama_api returned
    responses               \* history: the outcome of every requests.post

configVars == <<players, hand_size, max_score, pool_size>>
gameVars == <<configVars, hand, score, deck, discard_pile,
              board, storyteller_index, current_clue>>
mainVars == <<pc, loop_i, storyteller_submission, player_submissions, guesses,
              winners>>
appVars  == <<turn_phase, player_actions, board_cards_info, session_clue,
              storyteller_selected_card_index, storyteller_submitted_card,
              human_submitted_card, game_over, rerun>>
apiVars  == <<api_key, max_retries, attempt, api_pc, api_result, responses>>
vars == <<driver, gameVars, mainVars, appVars, over_scores, apiVars>>

----------------------------------------------------------------------------
(* Bounds of the model *)

\* largest hand_size a game is constructed with
MaxHandSize == 2
\* largest number of cards in the cards directory
MaxPool == 6
\* max_score the games are constructed with
MaxScoreBound == 3
\* largest integer a provider answers with
MaxAnswer == 3
\* max_score of the longer games
MaxLongScore == 5
\* largest number of cards in the games played by main.py alone
MaxPlayPool == 7

----------------------------------------------------------------------------
(* Values *)

NoCard == 0
NoIndex == -1
NoPlayer == "None"
NoSubmission == [player |-> NoPlayer, card |-> NoCard]

\* initialize_players(num_total, num_human): "Human i" first, then "AI i"
Roster == <<"Human 1", "AI 1", "AI 2">>

\* Game.__init__: is_ai = ("AI" in name)
is_ai(name) == name \in {"AI 1", "AI 2", "AI 3", "AI 4"}

human_player_name == "Human 1"

----------------------------------------------------------------------------
(* Sequences as Python lists, indexed from 0 *)

At(s, i) == s[i + 1]

\* list.pop(i)
Pop(s, i) == [k \in 1..(Len(s) - 1) |-> IF k < i + 1 THEN s[k] ELSE s[k + 1]]

Range(s) == {s[k] : k \in 1..Len(s)}

\* the outcomes of random.shuffle(s)
Shuffles(s) ==
    {[k \in 1..Len(s) |-> s[f[k]]] : f \in Permutations(1..Len(s))}

RECURSIVE SumOver(_, _)
SumOver(f, S) ==
    IF S = {} THEN 0
    ELSE LET x == CHOOSE y \in S : TRUE IN f[x] + SumOver(f, S \ {x})

\* the cards of list s in ascending order: position i holds the card v
\* with fewer than i cards below v and at least i cards up to v
Sorted(s) ==
    [i \in 1..Len(s) |->
       CHOOSE v \in Range(s) :
         /\ Cardinality({k \in 1..Len(s) : s[k] < v}) < i
         /\ i <= Cardinality({k \in 1..Len(s) : s[k] <= v})]

Min(S) == CHOOSE x \in S : \A y \in S : x <= y

\* s[i] of a Python list, negative indices counting from the end
PyAt(s, i) == IF i >= 0 THEN s[i + 1] ELSE s[Len(s) + i + 1]

PyInRange(s, i) == -Len(s) <= i /\ i < Len(s)

----------------------------------------------------------------------------
(* ai_interface.py *)

\* _parse_ai_index_response: the first integer of the text, if in range
parse_ai_index_response(resp, num_options) ==
    IF resp # NoIndex /\ 0 <= resp /\ resp < num_options THEN resp ELSE NoIndex

\* [i for i, path in enumerate(board_card_paths) if path != player_card_path]
possible_indices(cards, own) ==
    {i \in 0..(Len(cards) - 1) : At(cards, i) # own}

\* random.choice(possible_indices) if possible_indices else 0
random_choice_or_0(S) == IF S = {} THEN {0} ELSE S

\* guess_storyteller_card, "for i, card_path in enumerate(board_card_paths)":
\* the board positions whose image is put into the prompt, when the images
\* at the positions readable can be encoded
prompt_images(cards, readable) ==
    {i \in 0..(Len(cards) - 1) : i \in readable}

\* index_map[k]: the board index of the k-th image that could be encoded
index_map(enc, k) ==
    CHOOSE i \in enc : Cardinality({j \in enc : j < i}) = k

\* guess_storyteller_card raises TypeError in os.path.basename(None)
guess_storyteller_card_raises(cards, own) ==
    Len(cards) > 1 /\ own = NoCard

\* guess_storyteller_card: the indices it can return when the images at the
\* board positions enc could be encoded and the API answered resp
guess_storyteller_card(cards, own, enc, resp) ==
    IF Len(cards) <= 1 THEN {0}
    ELSE IF enc = {} THEN random_choice_or_0(possible_indices(cards, own))
    ELSE LET parsed_prompt_index ==
                 parse_ai_index_response(resp, Cardinality(enc))
         IN IF parsed_prompt_index = NoIndex
            THEN random_choice_or_0(possible_indices(cards, own))
            ELSE LET original_guess_index ==
                         index_map(enc, parsed_prompt_index)
                 IN IF At(cards, original_guess_index) = own
                    THEN random_choice_or_0(possible_indices(cards, own))
                    ELSE {original_guess_index}

\* choose_card_for_clue: the indices it can return for a hand of n cards of
\* which nvalid could be encoded, when the API answered resp
choose_card_for_clue(n, nvalid, resp) ==
    IF n = 0 THEN {NoIndex}
    ELSE IF nvalid <= 1 THEN 0..(n - 1)
    ELSE IF parse_ai_index_response(resp, n) # NoIndex
         THEN {parse_ai_index_response(resp, n)}
         ELSE 0..(n - 1)

\* generate_clue_for_image: the API text stripped ("" possible), or None
ClueAnswers == {"None", "", "clue"}

----------------------------------------------------------------------------
(* game.py: Player *)

\* Player.provide_clue, AI branch: the fallback clue replaces None only
provide_clue_text(answer) == IF answer = "None" THEN "AI Clue" ELSE answer

\* Player.provide_clue: the clues it can return with a card; a human is
\* asked again until the clue is not empty
provide_clue_texts(player) ==
    IF is_ai(player) THEN {provide_clue_text(answer) : answer \in ClueAnswers}
    ELSE {"clue"}

\* Player.submit_card, AI branch: the index popped for the answer chosen
submit_card_index(n, chosen_index) ==
    IF chosen_index = NoIndex \/ ~(0 <= chosen_index /\ chosen_index < n)
    THEN 0..(n - 1)
    ELSE {chosen_index}

\* Player.guess_card, AI branch: validation of the index the helper returned
guess_card_ai(cards, own, guess_index) ==
    IF ~(0 <= guess_index /\ guess_index < Len(cards))
    THEN random_choice_or_0(possible_indices(cards, own))
    ELSE IF At(cards, guess_index) = own
         THEN random_choice_or_0(possible_indices(cards, own))
         ELSE {guess_index}

\* guess_card_human without the "cannot vote for your own card" test
guess_card_human_any(cards, own) == 0..(Len(cards) - 1)

\* Player.guess_card, human branch: asks again until the index is in range
\* and is not the player's own card
guess_card_human(cards, own) ==
    {i \in 0..(Len(cards) - 1) : At(cards, i) # own}

----------------------------------------------------------------------------
(* game.py: Game *)

Storyteller == players[storyteller_index + 1]

\* the players of "for player in self.players: if player != storyteller"
Others == SelectSeq(players, LAMBDA p : p # Storyteller)

\* advance_storyteller that never reaches the last player
advance_storyteller_short(idx) == (idx + 1) % (Len(players) - 1)

\* Game._advance_storyteller
advance_storyteller(idx) == (idx + 1) % Len(players)

\* draw_cards that leaves the cards drawn in the deck
draw_cards_copy(p, hnd, dk) ==
    LET need == hand_size - Len(hnd[p])
        n == IF need <= 0 THEN 0
             ELSE IF need < Len(dk) THEN need ELSE Len(dk)
        drawn == [j \in 1..n |-> dk[Len(dk) - j + 1]]
    IN [hand |-> [hnd EXCEPT ![p] = @ \o drawn], deck |-> dk]

\* "while len(player.hand) < self.hand_size and self.deck:
\*      player.hand.append(self.deck.pop())" for player p
draw_cards(p, hnd, dk) ==
    LET need == hand_size - Len(hnd[p])
        n == IF need <= 0 THEN 0
             ELSE IF need < Len(dk) THEN need ELSE Len(dk)
        drawn == [j \in 1..n |-> dk[Len(dk) - j + 1]]
    IN [hand |-> [hnd EXCEPT ![p] = @ \o drawn],
        deck |-> SubSeq(dk, 1, Len(dk) - n)]

\* the loop of Game._replenish_hands from player number k on
RECURSIVE DrawAll(_, _, _)
DrawAll(k, hnd, dk) ==
    IF k > Len(players) THEN [hand |-> hnd, deck |-> dk]
    ELSE CHOOSE r \in {DrawAll(k + 1, d.hand, d.deck) :
                         d \in {draw_cards(players[k], hnd, dk)}} : TRUE

\* a recycling that leaves the cards on the discard pile as well
recycle_keep(dk, disc) ==
    {[deck |-> d, discard_pile |-> disc] : d \in Shuffles(dk \o disc)}

\* Game._replenish_hands, "self.deck.extend(self.discard_pile);
\* random.shuffle(self.deck); self.discard_pile = []": its outcomes
recycle(dk, disc) ==
    {[deck |-> d, discard_pile |-> <<>>] : d \in Shuffles(dk \o disc)}

\* a replenishing that never recycles the discard pile
replenish_hands_norecycle(hnd, dk, disc) ==
    {[hand |-> r.hand, deck |-> r.deck, discard_pile |-> disc] :
       r \in {DrawAll(1, hnd, dk)}}

\* Game._replenish_hands: its outcomes (one for each shuffle)
replenish_hands(hnd, dk, disc) ==
    IF dk = <<>>
    THEN IF disc = <<>>
         THEN {[hand |-> hnd, deck |-> dk, discard_pile |-> disc]}
         ELSE UNION {{[hand |-> r.hand, deck |-> r.deck,
                       discard_pile |-> c.discard_pile] :
                        r \in {DrawAll(1, hnd, c.deck)}} :
                     c \in recycle(dk, disc)}
    ELSE {[hand |-> r.hand, deck |-> r.deck, discard_pile |-> disc] :
            r \in {DrawAll(1, hnd, dk)}}

\* is_game_over that ends the game only above max_score
is_game_over_above(sc, hnd, dk, disc) ==
    \/ \E p \in Range(players) : sc[p] > max_score
    \/ /\ \E p \in Range(players) : Len(hnd[p]) < hand_size
       /\ dk = <<>>
       /\ disc = <<>>

\* Game.is_game_over
is_game_over(sc, hnd, dk, disc) ==
    \/ \E p \in Range(players) : sc[p] >= max_score
    \/ /\ \E p \in Range(players) : Len(hnd[p]) < hand_size
       /\ dk = <<>>
       /\ disc = <<>>

\* Game._update_scores: storyteller_card_index, -1 when not on the board
storyteller_card_index(brd, card) ==
    IF \E i \in 0..(Len(brd) - 1) : At(brd, i).card = card
    THEN Min({i \in 0..(Len(brd) - 1) : At(brd, i).card = card})
    ELSE -1

\* correct_guess_players that takes every guesser for a correct one
correct_guess_players_all(brd, sub, gs) == DOMAIN gs

correct_guess_players(brd, sub, gs) ==
    {g \in DOMAIN gs : gs[g] = storyteller_card_index(brd, sub.card)}

\* bucket_points that gives the +2 of "all or none" to the storyteller too
bucket_points_everyone(brd, sub, gs, p) ==
    LET correct == correct_guess_players(brd, sub, gs)
        num_guessers == Len(players) - 1
    IN IF Cardinality(correct) = num_guessers \/ Cardinality(correct) = 0
       THEN 2
       ELSE (IF p = sub.player THEN 3 ELSE 0)
            + (IF p \in correct THEN 3 ELSE 0)

\* the +2 / +3 part of Game._update_scores for player p
bucket_points(brd, sub, gs, p) ==
    LET correct == correct_guess_players(brd, sub, gs)
        num_guessers == Len(players) - 1
    IN IF Cardinality(correct) = num_guessers \/ Cardinality(correct) = 0
       THEN IF p # sub.player THEN 2 ELSE 0
       ELSE (IF p = sub.player THEN 3 ELSE 0)
            + (IF p \in correct THEN 3 ELSE 0)

\* bonus_points that gives at most one point for an entry
bonus_points_once(brd, sub, gs, p) ==
    IF \E g \in DOMAIN gs :
         /\ gs[g] # storyteller_card_index(brd, sub.card)
         /\ PyInRange(brd, gs[g])
         /\ PyAt(brd, gs[g]).player = p
         /\ p # sub.player
    THEN 1 ELSE 0

\* the bonus part of Game._update_scores for player p
bonus_points(brd, sub, gs, p) ==
    Cardinality({g \in DOMAIN gs :
        /\ gs[g] # storyteller_card_index(brd, sub.card)
        /\ PyInRange(brd, gs[g])
        /\ PyAt(brd, gs[g]).player = p
        /\ p # sub.player})

\* update_scores that sets each score to the points of the round
update_scores_assign(brd, sub, gs, sc) ==
    IF storyteller_card_index(brd, sub.card) = -1 THEN sc
    ELSE IF Len(players) - 1 <= 0 THEN sc
    ELSE [p \in DOMAIN sc |->
             bucket_points(brd, sub, gs, p) + bonus_points(brd, sub, gs, p)]

\* Game._update_scores
update_scores(brd, sub, gs, sc) ==
    IF storyteller_card_index(brd, sub.card) = -1 THEN sc
    ELSE IF Len(players) - 1 <= 0 THEN sc
    ELSE [p \in DOMAIN sc |->
             sc[p] + bucket_points(brd, sub, gs, p)
                   + bonus_points(brd, sub, gs, p)]

\* a cleanup that drops the cards of the board
discard_extend_none(disc, used_cards) == disc

\* self.discard_pile.extend(used_cards).  The pile is read only through
\* len() and random.shuffle (Game._replenish_hands), so the list is kept in
\* ascending order: one representative for each multiset of cards.
discard_extend(disc, used_cards) == Sorted(disc \o used_cards)

----------------------------------------------------------------------------
(* Construction *)

EmptyMap == [x \in {} |-> 0]

\* results of _call_llama_api: not returned yet, None, or a str
Pending == [kind |-> "pending", value |-> <<>>]
None == [kind |-> "None", value |-> <<>>]
Text(t) == [kind |-> "str", value |-> t]

\* def _call_llama_api(payload, max_retries=2, retry_delay=5)
DEFAULT_MAX_RETRIES == 2

\* no call of _call_llama_api is being followed
NoApiCall ==
    /\ api_key = TRUE
    /\ max_retries = DEFAULT_MAX_RETRIES
    /\ attempt = 0
    /\ api_pc = "idle"
    /\ api_result = Pending
    /\ responses = <<>>

Answers == {NoIndex} \cup (0..MaxAnswer)

CardsOf(brd) == [k \in 1..Len(brd) |-> brd[k].card]

\* Game.__init__ with max_score ms and a pool of at least N x hand_size and
\* at most mp cards: _deal_cards, then the main.py loop or the app.py script
\* at "turn_start"
NewGamePool(ms, mp) ==
    /\ driver \in {"main", "app"}
    /\ players = Roster
    /\ hand_size \in 1..MaxHandSize
    /\ max_score = ms
    /\ pool_size \in (Len(Roster) * hand_size)..mp
    /\ LET pool == [c \in 1..pool_size |-> c]
           dealt == DrawAll(1, [p \in Range(Roster) |-> <<>>], pool)
       IN /\ hand = dealt.hand
          /\ deck = dealt.deck
    /\ score = [p \in Range(Roster) |-> 0]
    /\ discard_pile = <<>>
    /\ board = <<>>
    /\ storyteller_index = 0
    /\ current_clue = ""
    /\ pc = IF driver = "main" THEN "loop" ELSE "idle"
    /\ loop_i = 0
    /\ storyteller_submission = NoSubmission
    /\ player_submissions = <<>>
    /\ guesses = EmptyMap
    /\ winners = <<>>
    /\ turn_phase = IF driver = "app" THEN "turn_start" ELSE "setup"
    /\ player_actions = EmptyMap
    /\ board_cards_info = <<>>
    /\ session_clue = ""
    /\ storyteller_selected_card_index = NoIndex
    /\ storyteller_submitted_card = NoCard
    /\ human_submitted_card = NoCard
    /\ game_over = FALSE
    /\ rerun = (driver = "app")
    /\ over_scores = EmptyMap
    /\ NoApiCall

NewGame(ms) == NewGamePool(ms, MaxPool)

Init == NewGame(MaxScoreBound)

----------------------------------------------------------------------------
(* History *)

\* no round is in progress
BetweenRounds ==
    \/ driver = "main" /\ pc \in {"loop", "done"}
    \/ driver = "app" /\ turn_phase \in {"turn_start", "game_end"}

\* over_scores keeps the scores of the first state between two rounds in
\* which is_game_over holds
Track ==
    over_scores' =
        IF over_scores # EmptyMap THEN over_scores
        ELSE IF BetweenRounds' /\ is_game_over(score', hand', deck', discard_pile')
             THEN score'
             ELSE EmptyMap

----------------------------------------------------------------------------
(* main.py and Game.play_turn *)

\* main.py: "while not game.is_game_over()" ends the loop
MainLoopExit ==
    /\ driver = "main" /\ pc = "loop"
    /\ is_game_over(score, hand, deck, discard_pile)
    /\ pc' = "done"
    /\ UNCHANGED <<driver, apiVars, gameVars, loop_i, storyteller_submission,
                   player_submissions, guesses, winners, appVars>>
    /\ Track

\* Game.play_turn called on a finished game returns at once
PlayTurnOver ==
    /\ driver = "main" /\ pc = "done"
    /\ is_game_over(score, hand, deck, discard_pile)
    /\ UNCHANGED vars

\* Game.play_turn, step 1: the storyteller has no card, the turn is skipped
PlayTurnSkip ==
    /\ driver = "main" /\ pc = "loop"
    /\ ~is_game_over(score, hand, deck, discard_pile)
    /\ hand[Storyteller] = <<>>
    /\ storyteller_index' = advance_storyteller(storyteller_index)
    /\ \E r \in replenish_hands(hand, deck, discard_pile) :
         /\ hand' = r.hand
         /\ deck' = r.deck
         /\ discard_pile' = r.discard_pile
    /\ UNCHANGED <<driver, apiVars, configVars, score, board,
                   current_clue, mainVars, appVars>>
    /\ Track

\* Game.play_turn, step 1: Player.provide_clue pops the chosen card
PlayTurnClue ==
    /\ driver = "main" /\ pc = "loop"
    /\ ~is_game_over(score, hand, deck, discard_pile)
    /\ hand[Storyteller] # <<>>
    /\ \E i \in 0..(Len(hand[Storyteller]) - 1),
          clue \in provide_clue_texts(Storyteller) :
         /\ hand' = [hand EXCEPT ![Storyteller] = Pop(@, i)]
         /\ current_clue' = clue
         /\ storyteller_submission' =
                [player |-> Storyteller, card |-> At(hand[Storyteller], i)]
    /\ player_submissions' = <<>>
    /\ guesses' = EmptyMap
    /\ loop_i' = 0
    /\ pc' = "submit"
    /\ UNCHANGED <<driver, apiVars, configVars, score, deck,
                   discard_pile, board, storyteller_index, winners, appVars>>
    /\ Track

\* Player.submit_card on a hand of n > 0 cards: the indices it can pop
submit_card(player, n) ==
    IF is_ai(player)
    THEN UNION {UNION {submit_card_index(n, chosen) :
                         chosen \in choose_card_for_clue(n, nvalid, resp)} :
                  nvalid \in 0..n, resp \in Answers}
    ELSE 0..(n - 1)

\* Game.play_turn, step 2: one pass of the submission loop
PlayTurnSubmit ==
    /\ driver = "main" /\ pc = "submit"
    /\ loop_i < Len(Others)
    /\ LET player == At(Others, loop_i)
           n == Len(hand[player])
       IN IF n = 0
          THEN UNCHANGED <<hand, player_submissions>>
          ELSE \E i \in submit_card(player, n) :
                 /\ hand' = [hand EXCEPT ![player] = Pop(@, i)]
                 /\ player_submissions' = Append(player_submissions,
                        [player |-> player, card |-> At(hand[player], i)])
    /\ loop_i' = loop_i + 1
    /\ UNCHANGED <<driver, apiVars, configVars, score, deck,
                   discard_pile, board, storyteller_index, current_clue,
                   pc, storyteller_submission, guesses, winners, appVars>>
    /\ Track

\* Game.play_turn, step 3: the board is assembled and shuffled
PlayTurnBoard ==
    /\ driver = "main" /\ pc = "submit"
    /\ loop_i = Len(Others)
    /\ board' \in Shuffles(<<storyteller_submission>> \o player_submissions)
    /\ pc' = "guess"
    /\ loop_i' = 0
    /\ UNCHANGED <<driver, apiVars, configVars, hand, score, deck,
                   discard_pile, storyteller_index, current_clue,
                   storyteller_submission, player_submissions, guesses,
                   winners, appVars>>
    /\ Track

\* the card the player submitted, as found by play_turn before guessing
player_submitted_card(subs, player) ==
    IF \E k \in 1..Len(subs) : subs[k].player = player
    THEN subs[Min({k \in 1..Len(subs) : subs[k].player = player})].card
    ELSE NoCard

\* Player.guess_card: the indices it can return
guess_card(player, displayed, own) ==
    IF is_ai(player)
    THEN UNION {UNION {guess_card_ai(displayed, own, g) :
                         g \in guess_storyteller_card(displayed, own, enc, resp)} :
                  enc \in {prompt_images(displayed, readable) :
                            readable \in SUBSET (0..(Len(displayed) - 1))},
                  resp \in Answers}
    ELSE guess_card_human(displayed, own)

\* Game.play_turn, step 4: one pass of the guessing loop
PlayTurnGuess ==
    /\ driver = "main" /\ pc = "guess"
    /\ loop_i < Len(Others)
    /\ LET player == At(Others, loop_i)
           own == player_submitted_card(player_submissions, player)
       IN IF is_ai(player) /\ guess_storyteller_card_raises(CardsOf(board), own)
          THEN /\ pc' = "crashed"
               /\ UNCHANGED <<guesses, loop_i>>
          ELSE /\ \E g \in guess_card(player, CardsOf(board), own) :
                    guesses' = (player :> g) @@ guesses
               /\ loop_i' = loop_i + 1
               /\ pc' = pc
    /\ UNCHANGED <<driver, apiVars, gameVars, storyteller_submission,
                   player_submissions, winners, appVars>>
    /\ Track

\* Game.play_turn, steps 5 to 8: scores, discard, replenish, next storyteller
PlayTurnScore ==
    /\ driver = "main" /\ pc = "guess"
    /\ loop_i = Len(Others)
    /\ score' = update_scores(board, storyteller_submission, guesses, score)
    /\ board' = <<>>
    /\ current_clue' = ""
    /\ \E used \in {discard_extend(discard_pile, CardsOf(board))} :
       \E r \in replenish_hands(hand, deck, used) :
         /\ hand' = r.hand
         /\ deck' = r.deck
         /\ discard_pile' = r.discard_pile
    /\ storyteller_index' = advance_storyteller(storyteller_index)
    /\ pc' = "loop"
    /\ loop_i' = 0
    /\ storyteller_submission' = NoSubmission
    /\ player_submissions' = <<>>
    /\ guesses' = EmptyMap
    /\ UNCHANGED <<driver, apiVars, configVars, winners, appVars>>
    /\ Track

NextMain ==
    \/ MainLoopExit
    \/ PlayTurnOver
    \/ PlayTurnSkip
    \/ PlayTurnClue
    \/ PlayTurnSubmit
    \/ PlayTurnBoard
    \/ PlayTurnGuess
    \/ PlayTurnScore

----------------------------------------------------------------------------
(* app.py: one action for each run of the script up to st.rerun() *)

ClueAction(card) == [action |-> "clue", card |-> card, guess_index |-> NoIndex]
SubmitAction(card) == [action |-> "submit", card |-> card, guess_index |-> NoIndex]
GuessAction(i) == [action |-> "guess", card |-> NoCard, guess_index |-> i]

\* ActionsOf that takes every recorded action for an action of the kind
ActionsOf_any(acts, kind) == DOMAIN acts

\* the players with an action of the kind on record
ActionsOf(acts, kind) == {p \in DOMAIN acts : acts[p].action = kind}

\* "turn_start": the round record is cleared; a human storyteller is asked
\* for a card, an AI storyteller gives its clue at once or the turn is skipped
AppTurnStart ==
    /\ driver = "app" /\ ~game_over /\ turn_phase = "turn_start"
    /\ rerun /\ rerun' = TRUE
    /\ board_cards_info' = <<>>
    /\ storyteller_selected_card_index' = NoIndex
    /\ human_submitted_card' = NoCard
    /\ IF Storyteller = human_player_name
       THEN /\ turn_phase' = "storyteller_clue"
            /\ session_clue' = ""
            /\ player_actions' = EmptyMap
            /\ storyteller_submitted_card' = NoCard
            /\ UNCHANGED <<hand, deck, discard_pile, storyteller_index>>
       ELSE IF hand[Storyteller] = <<>>
       THEN \* provide_clue returned (None, None)
            /\ session_clue' = ""
            /\ player_actions' = EmptyMap
            /\ storyteller_submitted_card' = NoCard
            /\ storyteller_index' = advance_storyteller(storyteller_index)
            /\ \E r \in replenish_hands(hand, deck, discard_pile) :
                 /\ hand' = r.hand
                 /\ deck' = r.deck
                 /\ discard_pile' = r.discard_pile
            /\ turn_phase' = "turn_start"
       ELSE \E i \in 0..(Len(hand[Storyteller]) - 1),
               clue \in provide_clue_texts(Storyteller) :
            LET chosen_card_filename == At(hand[Storyteller], i)
                popped == [hand EXCEPT ![Storyteller] = Pop(@, i)]
            IN IF clue # ""
               THEN /\ hand' = popped
                    /\ session_clue' = clue
                    /\ storyteller_submitted_card' = chosen_card_filename
                    /\ player_actions' =
                           (Storyteller :> ClueAction(chosen_card_filename))
                    /\ turn_phase' = "player_submit"
                    /\ UNCHANGED <<deck, discard_pile, storyteller_index>>
               ELSE \* "if clue and chosen_card_filename" fails on ""
                    /\ session_clue' = ""
                    /\ player_actions' = EmptyMap
                    /\ storyteller_submitted_card' = NoCard
                    /\ storyteller_index' =
                           advance_storyteller(storyteller_index)
                    /\ \E r \in replenish_hands(popped, deck, discard_pile) :
                         /\ hand' = r.hand
                         /\ deck' = r.deck
                         /\ discard_pile' = r.discard_pile
                    /\ turn_phase' = "turn_start"
    /\ UNCHANGED <<driver, apiVars, configVars, score, board,
                   current_clue, mainVars, game_over>>
    /\ Track

\* the human storyteller clicks "Select Card i"
AppSelectCard ==
    /\ driver = "app" /\ ~game_over /\ turn_phase = "storyteller_clue"
    /\ Storyteller = human_player_name
    /\ storyteller_selected_card_index = NoIndex
    /\ ~rerun /\ rerun' = TRUE
    /\ \E i \in 0..(Len(hand[human_player_name]) - 1) :
         storyteller_selected_card_index' = i
    /\ UNCHANGED <<driver, apiVars, gameVars, mainVars, turn_phase, player_actions,
                   board_cards_info, session_clue, storyteller_submitted_card,
                   human_submitted_card, game_over>>
    /\ Track

\* AppSubmitClue that goes to "player_guess" at once
AppSubmitClue_to_guess ==
    /\ driver = "app" /\ ~game_over /\ turn_phase = "storyteller_clue"
    /\ Storyteller = human_player_name
    /\ storyteller_selected_card_index # NoIndex
    /\ ~rerun /\ rerun' = TRUE
    /\ IF 0 <= storyteller_selected_card_index
          /\ storyteller_selected_card_index < Len(hand[human_player_name])
       THEN LET chosen_card_filename ==
                    At(hand[human_player_name], storyteller_selected_card_index)
            IN /\ session_clue' = "clue"
               /\ storyteller_submitted_card' = chosen_card_filename
               /\ player_actions' = (Storyteller :> ClueAction(chosen_card_filename))
                                    @@ player_actions
               /\ turn_phase' = "player_guess"
       ELSE UNCHANGED <<session_clue, storyteller_submitted_card,
                        player_actions, turn_phase>>
    /\ storyteller_selected_card_index' = NoIndex
    /\ UNCHANGED <<driver, apiVars, gameVars, mainVars, board_cards_info,
                   human_submitted_card, game_over>>
    /\ Track

\* the human storyteller submits the clue form with a non-empty clue: the
\* card is recorded and stays in the hand
AppSubmitClue ==
    /\ driver = "app" /\ ~game_over /\ turn_phase = "storyteller_clue"
    /\ Storyteller = human_player_name
    /\ storyteller_selected_card_index # NoIndex
    /\ ~rerun /\ rerun' = TRUE
    /\ IF 0 <= storyteller_selected_card_index
          /\ storyteller_selected_card_index < Len(hand[human_player_name])
       THEN LET chosen_card_filename ==
                    At(hand[human_player_name], storyteller_selected_card_index)
            IN /\ session_clue' = "clue"
               /\ storyteller_submitted_card' = chosen_card_filename
               /\ player_actions' = (Storyteller :> ClueAction(chosen_card_filename))
                                    @@ player_actions
               /\ turn_phase' = "player_submit"
       ELSE UNCHANGED <<session_clue, storyteller_submitted_card,
                        player_actions, turn_phase>>
    /\ storyteller_selected_card_index' = NoIndex
    /\ UNCHANGED <<driver, apiVars, gameVars, mainVars, board_cards_info,
                   human_submitted_card, game_over>>
    /\ Track

\* the human clicks "Submit Card i": the card is recorded and stays in the hand
AppHumanSubmit ==
    /\ driver = "app" /\ ~game_over /\ turn_phase = "player_submit"
    /\ Storyteller # human_player_name
    /\ human_player_name \notin DOMAIN player_actions
    /\ ~rerun /\ rerun' = TRUE
    /\ \E i \in 0..(Len(hand[human_player_name]) - 1) :
         LET submitted_card == At(hand[human_player_name], i)
         IN /\ human_submitted_card' = submitted_card
            /\ player_actions' = (human_player_name :> SubmitAction(submitted_card))
                                 @@ player_actions
    /\ UNCHANGED <<driver, apiVars, gameVars, mainVars, turn_phase, board_cards_info,
                   session_clue, storyteller_selected_card_index,
                   storyteller_submitted_card, game_over>>
    /\ Track

\* the AI players the loops of "player_submit" and "player_guess" act for
PendingAI(acts) ==
    {p \in Range(players) : p # Storyteller /\ is_ai(p) /\ p \notin DOMAIN acts}

\* "player_submit": the loop over the AI players, from player number k on
RECURSIVE ai_submissions(_, _, _)
ai_submissions(k, hnd, acts) ==
    IF k > Len(players) THEN {[hand |-> hnd, player_actions |-> acts]}
    ELSE LET p == players[k]
         IN IF p \in PendingAI(player_actions) /\ hnd[p] # <<>>
            THEN UNION {ai_submissions(k + 1,
                            [hnd EXCEPT ![p] = Pop(@, i)],
                            (p :> SubmitAction(At(hnd[p], i))) @@ acts) :
                        i \in submit_card(p, Len(hnd[p]))}
            ELSE ai_submissions(k + 1, hnd, acts)

\* the board collated in "player_submit": storyteller card first
collated_board(acts) ==
    <<[player |-> Storyteller, card |-> acts[Storyteller].card]>>
    \o [k \in 1..Len(SelectSeq(players, LAMBDA p : p \in ActionsOf(acts, "submit")))
          |-> [player |-> SelectSeq(players, LAMBDA p : p \in ActionsOf(acts, "submit"))[k],
               card |-> acts[SelectSeq(players, LAMBDA p : p \in ActionsOf(acts, "submit"))[k]].card]]

\* "player_submit": the AI players submit, or the board is prepared
AppSubmitPhase ==
    /\ driver = "app" /\ ~game_over /\ turn_phase = "player_submit"
    /\ Storyteller \in ActionsOf(player_actions, "clue")
    /\ rerun /\ rerun' = TRUE
    /\ IF PendingAI(player_actions) # {}
       THEN \* ai_action_taken
            /\ \E r \in ai_submissions(1, hand, player_actions) :
                 /\ hand' = r.hand
                 /\ player_actions' = r.player_actions
            /\ UNCHANGED <<board_cards_info, turn_phase>>
       ELSE /\ Cardinality(ActionsOf(player_actions, "submit"))
                 >= Len(players) - 1
            /\ board_cards_info' \in Shuffles(collated_board(player_actions))
            /\ turn_phase' = "player_guess"
            /\ player_actions' = (Storyteller :> player_actions[Storyteller])
            /\ UNCHANGED hand
    /\ UNCHANGED <<driver, apiVars, configVars, score, deck,
                   discard_pile, board, storyteller_index, current_clue,
                   mainVars, session_clue, storyteller_selected_card_index,
                   storyteller_submitted_card, human_submitted_card, game_over>>
    /\ Track

\* the human clicks "Guess Card i", offered for the cards of other players
AppHumanGuess ==
    /\ driver = "app" /\ ~game_over /\ turn_phase = "player_guess"
    /\ board_cards_info # <<>>
    /\ Storyteller # human_player_name
    /\ human_player_name \notin ActionsOf(player_actions, "guess")
    /\ ~rerun /\ rerun' = TRUE
    /\ \E i \in 0..(Len(board_cards_info) - 1) :
         /\ At(board_cards_info, i).player # human_player_name
         /\ player_actions' = (human_player_name :> GuessAction(i))
                              @@ player_actions
    /\ UNCHANGED <<driver, apiVars, gameVars, mainVars, turn_phase, board_cards_info,
                   session_clue, storyteller_selected_card_index,
                   storyteller_submitted_card, human_submitted_card, game_over>>
    /\ Track

\* "player_guess": the loop over the AI players, from player number k on
RECURSIVE ai_guesses(_, _)
ai_guesses(k, acts) ==
    IF k > Len(players) THEN {acts}
    ELSE LET p == players[k]
             ai_submitted_card_filename ==
                 player_submitted_card(board_cards_info, p)
         IN IF p \in PendingAI(player_actions)
               /\ ai_submitted_card_filename # NoCard
            THEN UNION {ai_guesses(k + 1,
                            IF 0 <= g /\ g < Len(board_cards_info)
                            THEN (p :> GuessAction(g)) @@ acts
                            ELSE acts) :
                        g \in guess_card(p, CardsOf(board_cards_info),
                                         ai_submitted_card_filename)}
            ELSE ai_guesses(k + 1, acts)

\* AI players whose guess loop pass ends in "continue"
BlockedAI(acts) ==
    {p \in PendingAI(acts) : player_submitted_card(board_cards_info, p) = NoCard}

\* "player_guess": the AI players guess, or the phase moves to "scoring"
AppGuessPhase ==
    /\ driver = "app" /\ ~game_over /\ turn_phase = "player_guess"
    /\ board_cards_info # <<>>
    /\ rerun /\ rerun' = TRUE
    /\ IF PendingAI(player_actions) \ BlockedAI(player_actions) # {}
       THEN /\ player_actions' \in ai_guesses(1, player_actions)
            /\ UNCHANGED turn_phase
       ELSE /\ Cardinality(ActionsOf(player_actions, "guess"))
                 >= Len(players) - 1
            /\ turn_phase' = "scoring"
            /\ UNCHANGED player_actions
    /\ UNCHANGED <<driver, apiVars, gameVars, mainVars, board_cards_info, session_clue,
                   storyteller_selected_card_index, storyteller_submitted_card,
                   human_submitted_card, game_over>>
    /\ Track

\* guesses_dict of "scoring"
guesses_dict(acts) ==
    [p \in ActionsOf(acts, "guess") |-> acts[p].guess_index]

\* "scoring": _update_scores on the displayed board, then discard, replenish,
\* next storyteller and the end-of-game test
AppScoring ==
    /\ driver = "app" /\ ~game_over /\ turn_phase = "scoring"
    /\ rerun /\ rerun' = TRUE
    /\ Storyteller \in ActionsOf(player_actions, "clue")
    /\ score' = update_scores(board_cards_info,
                    [player |-> Storyteller,
                     card |-> player_actions[Storyteller].card],
                    guesses_dict(player_actions), score)
    /\ board_cards_info' = <<>>
    /\ \E used \in {discard_extend(discard_pile, CardsOf(board_cards_info))} :
       \E r \in replenish_hands(hand, deck, used) :
         /\ hand' = r.hand
         /\ deck' = r.deck
         /\ discard_pile' = r.discard_pile
    /\ storyteller_index' = advance_storyteller(storyteller_index)
    /\ IF is_game_over(score', hand', deck', discard_pile')
       THEN game_over' = TRUE /\ turn_phase' = "game_end"
       ELSE game_over' = FALSE /\ turn_phase' = "turn_start"
    /\ UNCHANGED <<driver, apiVars, configVars, board, current_clue,
                   mainVars, player_actions, session_clue,
                   storyteller_selected_card_index, storyteller_submitted_card,
                   human_submitted_card>>
    /\ Track

\* a run of the script that ends without st.rerun(): it waits for a click
AppWait ==
    /\ driver = "app" /\ ~game_over /\ rerun
    /\ \/ turn_phase = "storyteller_clue"
       \/ /\ turn_phase = "player_submit"
          /\ PendingAI(player_actions) = {}
          /\ Cardinality(ActionsOf(player_actions, "submit"))
               < Len(players) - 1
       \/ /\ turn_phase = "player_guess"
          /\ \/ board_cards_info = <<>>
             \/ /\ PendingAI(player_actions) \ BlockedAI(player_actions) = {}
                /\ Cardinality(ActionsOf(player_actions, "guess"))
                     < Len(players) - 1
    /\ rerun' = FALSE
    /\ UNCHANGED <<driver, apiVars, gameVars, mainVars, turn_phase, player_actions,
                   board_cards_info, session_clue,
                   storyteller_selected_card_index, storyteller_submitted_card,
                   human_submitted_card, game_over>>
    /\ Track

NextApp ==
    \/ AppWait
    \/ AppTurnStart
    \/ AppSelectCard
    \/ AppSubmitClue
    \/ AppHumanSubmit
    \/ AppSubmitPhase
    \/ AppHumanGuess
    \/ AppGuessPhase
    \/ AppScoring

Next == NextMain \/ NextApp

Spec == Init /\ [][Next]_vars

\* the games of one card a hand with at most one card left in the deck
\* after the deal
InitLive ==
    /\ Init
    /\ hand_size = 1
    /\ pool_size <= Len(Roster) + 1

\* the main.py loop runs on, a script run that ends in st.rerun() is followed
\* by the next run, and the human player clicks when asked to
SpecLive ==
    InitLive /\ [][Next]_vars /\ WF_vars(NextMain) /\ WF_vars(NextApp)

\* the longer games of one card a hand: the discard pile is recycled after
\* every round or every other round
InitLong ==
    /\ NewGame(MaxLongScore)
    /\ hand_size = 1
    /\ pool_size <= Len(Roster) + 1

SpecLong == InitLong /\ [][Next]_vars

\* the games of main.py alone, with up to MaxPlayPool cards: after the deal
\* of two cards a hand one card is left in the draw pile
InitPlay ==
    /\ NewGamePool(MaxScoreBound, MaxPlayPool)
    /\ driver = "main"

SpecPlay == InitPlay /\ [][NextMain]_vars

----------------------------------------------------------------------------
(* Game._update_scores on its own, with four players *)

\* initialize_players(4, 1)
ScoreRoster == <<"Human 1", "AI 1", "AI 2", "AI 3">>

\* the boards play_turn and app.py assemble: one entry for each player that
\* submitted, the storyteller included, in any order; card k is the card of
\* player number k
ScoreBoards(st) ==
    UNION {Shuffles([j \in 1..Len(sub) |-> [player |-> ScoreRoster[sub[j]],
                                             card |-> sub[j]]]) :
           sub \in {SelectSeq(<<1, 2, 3, 4>>, LAMBDA k : k = st \/ k \in S) :
                    S \in SUBSET (1..4)}}

\* the guesses the two drivers record: of players with an entry on the
\* board, an index of the board that is not the index of their own entry
ScoreGuesses(brd, st) ==
    LET submitters == {brd[k].player : k \in 1..Len(brd)} \ {ScoreRoster[st]}
    IN UNION {[G -> 0..(Len(brd) - 1)] : G \in SUBSET submitters}

\* a call of Game._update_scores is about to be made, with the card of the
\* storyteller's entry as the storyteller's card or, if missing, with a card
\* that no entry of the board holds
ScoreCall(missing) ==
    /\ driver = "score"
    /\ players = ScoreRoster
    /\ hand_size = 1
    /\ max_score = MaxScoreBound
    /\ pool_size = Len(ScoreRoster)
    /\ hand = [p \in Range(ScoreRoster) |-> <<>>]
    /\ deck = <<>>
    /\ discard_pile = <<>>
    /\ storyteller_index \in 0..(Len(ScoreRoster) - 1)
    /\ board \in ScoreBoards(storyteller_index + 1)
    /\ storyteller_submission =
           [player |-> ScoreRoster[storyteller_index + 1],
            card |-> IF missing THEN Len(ScoreRoster) + 1
                     ELSE storyteller_index + 1]
    /\ guesses \in {gs \in ScoreGuesses(board, storyteller_index + 1) :
                      \A g \in DOMAIN gs : At(board, gs[g]).player # g}
    /\ \E base \in 0..1 : score = [p \in Range(ScoreRoster) |-> base]
    /\ current_clue = "clue"
    /\ pc = "call"
    /\ loop_i = 0
    /\ player_submissions = <<>>
    /\ winners = <<>>
    /\ turn_phase = "setup"
    /\ player_actions = EmptyMap
    /\ board_cards_info = <<>>
    /\ session_clue = ""
    /\ storyteller_selected_card_index = NoIndex
    /\ storyteller_submitted_card = NoCard
    /\ human_submitted_card = NoCard
    /\ game_over = FALSE
    /\ rerun = FALSE
    /\ over_scores = EmptyMap
    /\ NoApiCall

\* self._update_scores(storyteller_submission, guesses)
UpdateScoresCall ==
    /\ driver = "score" /\ pc = "call"
    /\ score' = update_scores(board, storyteller_submission, guesses, score)
    /\ pc' = "return"
    /\ UNCHANGED <<driver, apiVars, configVars, hand, deck, discard_pile, board,
                   storyteller_index, current_clue, loop_i,
                   storyteller_submission, player_submissions, guesses,
                   winners, appVars, over_scores>>

NextScore == UpdateScoresCall

\* the calls play_turn and app.py make
InitScore == ScoreCall(FALSE)

SpecScore == InitScore /\ [][NextScore]_vars

\* the calls of an orchestrator that lost the storyteller's card
InitMissing == ScoreCall(TRUE)

SpecMissing == InitMissing /\ [][NextScore]_vars

----------------------------------------------------------------------------
(* Game.__init__ as a step: from the arguments and the card directory *)

\* _create_dummy_cards: "+ (num_players * 5)" in num_needed
DummyExtra == 5

\* the test without the comparison with players x hand_size
deck_insufficient_empty(n) == n = 0

\* "not self.deck or len(self.deck) < len(self.players) * self.hand_size"
\* for a deck of n cards
deck_insufficient(n) == n = 0 \/ n < Len(players) * hand_size

\* Game._create_dummy_cards with n cards loaded: its return value and the
\* number of files it has created (an IOError on a file is passed over)
create_dummy_cards(num_players, hsize, n) ==
    LET num_needed == num_players * hsize + num_players * DummyExtra
        num_to_create == IF num_needed - n > 0 THEN num_needed - n ELSE 0
    IN IF num_to_create = 0 THEN {[ok |-> TRUE, created |-> 0]}
       ELSE {[ok |-> FALSE, created |-> 0]}
            \cup {[ok |-> TRUE, created |-> c] : c \in 0..num_to_create}

\* Game(player_names, hand_size, max_score, cards_directory) is about to be
\* called by main.py or by the "setup" phase of app.py; pool_size is the
\* number of card files in the directory
InitNew ==
    /\ driver \in {"main", "app"}
    /\ players \in {<<>>, Roster}
    /\ hand_size \in 1..MaxHandSize
    /\ max_score = MaxScoreBound
    /\ pool_size \in 0..MaxPool
    /\ hand = EmptyMap
    /\ score = EmptyMap
    /\ deck = <<>>
    /\ discard_pile = <<>>
    /\ board = <<>>
    /\ storyteller_index = 0
    /\ current_clue = ""
    /\ pc = "new"
    /\ loop_i = 0
    /\ storyteller_submission = NoSubmission
    /\ player_submissions = <<>>
    /\ guesses = EmptyMap
    /\ winners = <<>>
    /\ turn_phase = "setup"
    /\ player_actions = EmptyMap
    /\ board_cards_info = <<>>
    /\ session_clue = ""
    /\ storyteller_selected_card_index = NoIndex
    /\ storyteller_submitted_card = NoCard
    /\ human_submitted_card = NoCard
    /\ game_over = FALSE
    /\ rerun = (driver = "app")
    /\ over_scores = EmptyMap
    /\ NoApiCall

\* Game.__init__ raises ValueError with n cards in the directory
ConstructFails(n) ==
    /\ pool_size' = n
    /\ pc' = "error"
    /\ turn_phase' = IF driver = "app" THEN "error" ELSE turn_phase
    /\ UNCHANGED <<hand, score, deck>>

\* Game.__init__ goes on with a deck of n cards: _deal_cards
ConstructDeals(n) ==
    /\ pool_size' = n
    /\ LET dealt == DrawAll(1, [p \in Range(players) |-> <<>>],
                            [c \in 1..n |-> c])
       IN /\ hand' = dealt.hand
          /\ deck' = dealt.deck
    /\ score' = [p \in Range(players) |-> 0]
    /\ pc' = IF driver = "main" THEN "loop" ELSE "idle"
    /\ turn_phase' = IF driver = "app" THEN "turn_start" ELSE turn_phase

\* Game.__init__
Construct ==
    /\ pc = "new"
    /\ IF ~deck_insufficient(pool_size)
       THEN ConstructDeals(pool_size)
       ELSE \E r \in create_dummy_cards(Len(players), hand_size, pool_size) :
              IF r.ok /\ ~deck_insufficient(pool_size + r.created)
              THEN ConstructDeals(pool_size + r.created)
              ELSE ConstructFails(pool_size + r.created)
    /\ storyteller_index' = 0
    /\ discard_pile' = <<>>
    /\ board' = <<>>
    /\ current_clue' = ""
    /\ UNCHANGED <<driver, apiVars, players, hand_size, max_score, loop_i,
                   storyteller_submission, player_submissions, guesses,
                   winners, player_actions, board_cards_info, session_clue,
                   storyteller_selected_card_index, storyteller_submitted_card,
                   human_submitted_card, game_over, rerun, over_scores>>

NextNew == Construct

SpecNew == InitNew /\ [][NextNew]_vars

----------------------------------------------------------------------------
(* Game.get_winner on its own *)

\* largest score get_winner is called with
MaxWinnerScore == 3

\* "for player in self.players: if player.score > max_score: ..." from
\* player number k on, with m the maximum so far
RECURSIVE highest_score(_, _, _)
highest_score(k, sc, m) ==
    IF k > Len(players) THEN m
    ELSE highest_score(k + 1, sc,
                       IF sc[players[k]] > m THEN sc[players[k]] ELSE m)

\* get_winner that returns the first player with the highest score only
get_winner_first(sc) ==
    IF players = <<>> THEN <<>>
    ELSE SubSeq(SelectSeq(players,
                          LAMBDA p : sc[p] = highest_score(1, sc, -1)), 1, 1)

\* Game.get_winner
get_winner(sc) ==
    IF players = <<>> THEN <<>>
    ELSE IF highest_score(1, sc, -1) < 0 THEN <<>>
    ELSE SelectSeq(players, LAMBDA p : sc[p] = highest_score(1, sc, -1))

\* game.get_winner() is about to be called, by main.py after its loop or by
\* the "game over" part of app.py, on a roster of 0, 3 or 4 players with
\* any scores (no score is negative)
InitWinner ==
    /\ driver = "winner"
    /\ players \in {<<>>, Roster, ScoreRoster}
    /\ hand_size = 1
    /\ max_score = MaxScoreBound
    /\ pool_size = Len(players)
    /\ hand = [p \in Range(players) |-> <<>>]
    /\ score \in [Range(players) -> 0..MaxWinnerScore]
    /\ deck = <<>>
    /\ discard_pile = <<>>
    /\ board = <<>>
    /\ storyteller_index = 0
    /\ current_clue = ""
    /\ pc = "call"
    /\ loop_i = 0
    /\ storyteller_submission = NoSubmission
    /\ player_submissions = <<>>
    /\ guesses = EmptyMap
    /\ winners = <<>>
    /\ turn_phase = "setup"
    /\ player_actions = EmptyMap
    /\ board_cards_info = <<>>
    /\ session_clue = ""
    /\ storyteller_selected_card_index = NoIndex
    /\ storyteller_submitted_card = NoCard
    /\ human_submitted_card = NoCard
    /\ game_over = TRUE
    /\ rerun = FALSE
    /\ over_scores = EmptyMap
    /\ NoApiCall

\* winners = game.get_winner()
GetWinnerCall ==
    /\ driver = "winner" /\ pc = "call"
    /\ winners' = get_winner(score)
    /\ pc' = "return"
    /\ UNCHANGED <<driver, apiVars, gameVars, loop_i, storyteller_submission,
                   player_submissions, guesses, appVars, over_scores>>

NextWinner == GetWinnerCall

SpecWinner == InitWinner /\ [][NextWinner]_vars

----------------------------------------------------------------------------
(* ai_interface._call_llama_api *)

\* largest max_retries a call is made with
MaxRetries == 3

\* a str is the sequence of its characters
RECURSIVE lstrip(_)
lstrip(t) ==
    IF t = <<>> THEN <<>>
    ELSE IF Head(t) = " " THEN lstrip(Tail(t)) ELSE t

RECURSIVE rstrip(_)
rstrip(t) ==
    IF t = <<>> THEN <<>>
    ELSE IF t[Len(t)] = " " THEN rstrip(SubSeq(t, 1, Len(t) - 1)) ELSE t

\* str.strip()
strip(t) == rstrip(lstrip(t))

\* " ".join(parts)
RECURSIVE join(_)
join(parts) ==
    IF parts = <<>> THEN <<>>
    ELSE IF Len(parts) = 1 THEN parts[1]
    ELSE parts[1] \o <<" ">> \o join(Tail(parts))

\* the values of a "content" field: a str, a list of items, or anything else
Str(t) == [type |-> "str", value |-> t, items |-> <<>>]
List(its) == [type |-> "list", value |-> <<>>, items |-> its]
Null == [type |-> "null", value |-> <<>>, items |-> <<>>]

TextItem(t) == [type |-> "text", has_text |-> TRUE, text |-> t]
BareItem == [type |-> "text", has_text |-> FALSE, text |-> <<>>]
ImageItem == [type |-> "image_url", has_text |-> FALSE, text |-> <<>>]

ApiTexts == {<<>>, <<"c">>, <<" ", "c", " ">>}

ApiLists ==
    {<<>>, <<ImageItem>>, <<TextItem(<<"c">>)>>, <<BareItem>>,
     <<TextItem(<<"c">>), ImageItem, TextItem(<<"c", " ">>)>>}

\* response.json(): data["choices"][k]["message"]["content"] and
\* data["completion_message"]["content"]
ApiData ==
    {[choices |-> <<c>>, completion |-> Null] :
        c \in {Str(t) : t \in ApiTexts} \cup {List(l) : l \in ApiLists}
              \cup {Null}}
    \cup {[choices |-> <<Null>>, completion |-> Str(<<"c">>)]}
    \cup {[choices |-> <<>>, completion |-> m] :
            m \in {Str(t) : t \in ApiTexts} \cup {Null}}

NoData == [choices |-> <<>>, completion |-> Null]

\* what requests.post, raise_for_status and response.json() end with: one of
\* the three exceptions the loop catches, or the decoded data
ApiOutcomes ==
    {[kind |-> k, data |-> NoData] :
        k \in {"Timeout", "RequestException", "Exception"}}
    \cup {[kind |-> "json", data |-> d] : d \in ApiData}

\* an exception left the try block
Raised == [kind |-> "raise", value |-> <<>>]

\* [item['text'] for item in content if item.get('type') == 'text']
text_parts(items) ==
    LET sel == SelectSeq(items, LAMBDA it : it.type = "text")
    IN [k \in 1..Len(sel) |-> sel[k].text]

\* the content extraction of _call_llama_api: the str it returns, None
\* ("Could not find standard text content"), or the KeyError of an item of
\* type 'text' without a 'text'
extract_text(data) ==
    IF Len(data.choices) > 0
    THEN LET content == data.choices[1]
         IN IF content.type = "str" THEN Text(strip(content.value))
            ELSE IF content.type = "list"
            THEN IF \E k \in 1..Len(content.items) :
                       /\ content.items[k].type = "text"
                       /\ ~content.items[k].has_text
                 THEN Raised
                 ELSE Text(strip(join(text_parts(content.items))))
            ELSE None
    ELSE IF data.completion.type = "str"
    THEN Text(strip(data.completion.value))
    ELSE None

\* the body of the try block for one outcome of the request
attempt_result(r) ==
    IF r.kind = "json" THEN extract_text(r.data) ELSE Raised

\* _call_llama_api(payload, max_retries) is about to be called, with or
\* without an API key in the environment
InitCall ==
    /\ driver = "api"
    /\ players = Roster
    /\ hand_size = 1
    /\ max_score = MaxScoreBound
    /\ pool_size = Len(Roster)
    /\ hand = [p \in Range(Roster) |-> <<>>]
    /\ score = [p \in Range(Roster) |-> 0]
    /\ deck = <<>>
    /\ discard_pile = <<>>
    /\ board = <<>>
    /\ storyteller_index = 0
    /\ current_clue = ""
    /\ pc = "idle"
    /\ loop_i = 0
    /\ storyteller_submission = NoSubmission
    /\ player_submissions = <<>>
    /\ guesses = EmptyMap
    /\ winners = <<>>
    /\ turn_phase = "setup"
    /\ player_actions = EmptyMap
    /\ board_cards_info = <<>>
    /\ session_clue = ""
    /\ storyteller_selected_card_index = NoIndex
    /\ storyteller_submitted_card = NoCard
    /\ human_submitted_card = NoCard
    /\ game_over = FALSE
    /\ rerun = FALSE
    /\ over_scores = EmptyMap
    /\ api_key \in BOOLEAN
    /\ max_retries \in 0..MaxRetries
    /\ attempt = 0
    /\ api_pc = "call"
    /\ api_result = Pending
    /\ responses = <<>>

\* if not LLAMA_API_KEY: return None; otherwise the loop is entered
CallLlamaApi ==
    /\ driver = "api" /\ api_pc = "call"
    /\ IF ~api_key
       THEN api_result' = None /\ api_pc' = "return"
       ELSE api_result' = api_result /\ api_pc' = "for"
    /\ UNCHANGED <<driver, gameVars, mainVars, appVars, over_scores,
                   api_key, max_retries, attempt, responses>>

\* for attempt in range(max_retries): the request is sent, or the loop is
\* over and the function ends with its trailing "return None"
ForAttempt ==
    /\ driver = "api" /\ api_pc = "for"
    /\ IF attempt < max_retries
       THEN api_pc' = "post" /\ api_result' = api_result
       ELSE api_pc' = "return" /\ api_result' = None
    /\ UNCHANGED <<driver, gameVars, mainVars, appVars, over_scores,
                   api_key, max_retries, attempt, responses>>

\* the try block returns a str
ReturnsText ==
    /\ driver = "api" /\ api_pc = "post"
    /\ \E r \in ApiOutcomes :
         /\ attempt_result(r).kind = "str"
         /\ responses' = Append(responses, r)
         /\ api_result' = attempt_result(r)
    /\ api_pc' = "return"
    /\ UNCHANGED <<driver, gameVars, mainVars, appVars, over_scores,
                   api_key, max_retries, attempt>>

\* the try block finds no text content and returns None
ReturnsNone ==
    /\ driver = "api" /\ api_pc = "post"
    /\ \E r \in ApiOutcomes :
         /\ attempt_result(r) = None
         /\ responses' = Append(responses, r)
    /\ api_result' = None
    /\ api_pc' = "return"
    /\ UNCHANGED <<driver, gameVars, mainVars, appVars, over_scores,
                   api_key, max_retries, attempt>>

\* an exception is caught: time.sleep(retry_delay) and the next attempt, or
\* "Max retries reached" and return None
AttemptFails ==
    /\ driver = "api" /\ api_pc = "post"
    /\ \E r \in ApiOutcomes :
         /\ attempt_result(r) = Raised
         /\ responses' = Append(responses, r)
    /\ IF attempt < max_retries - 1
       THEN /\ attempt' = attempt + 1
            /\ api_pc' = "for"
            /\ api_result' = api_result
       ELSE /\ attempt' = attempt
            /\ api_pc' = "return"
            /\ api_result' = None
    /\ UNCHANGED <<driver, gameVars, mainVars, appVars, over_scores,
                   api_key, max_retries>>

NextCall ==
    \/ CallLlamaApi
    \/ ForAttempt
    \/ ReturnsText
    \/ ReturnsNone
    \/ AttemptFails

\* requests.post has timeout=90 and time.sleep(retry_delay) ends: the
\* function, which runs in one thread, takes its next step
SpecCall == InitCall /\ [][NextCall]_vars /\ WF_vars(NextCall)

----------------------------------------------------------------------------
(* Properties of the turn engine *)

\* number of positions of list s that hold card c
Count(s, c) == Cardinality({k \in 1..Len(s) : s[k] = c})

\* the cards played in the round in progress: those on the board and, before
\* the board is assembled, those recorded as clue card or as submission
InPlay ==
    IF driver = "main"
    THEN IF board # <<>> THEN CardsOf(board)
         ELSE IF pc = "submit"
              THEN <<storyteller_submission.card>> \o CardsOf(player_submissions)
              ELSE <<>>
    ELSE IF driver = "app"
    THEN IF turn_phase = "player_submit"
         THEN CardsOf(collated_board(player_actions))
         ELSE IF turn_phase \in {"player_guess", "scoring"}
              THEN CardsOf(board_cards_info)
              ELSE <<>>
    ELSE <<>>

HandCards == SumOver([p \in Range(players) |-> Len(hand[p])], Range(players))

\* C1: in every reachable state the sizes of the draw pile, the discard
\* pile, all hands and the board (the cards played in the round in progress)
\* add up to the size of the pool the game was constructed with.
C1_Conservation ==
    driver \in {"main", "app"} =>
        Len(deck) + Len(discard_pile) + HandCards + Len(InPlay) = pool_size

\* C2: every card of the pool is at exactly one place: one position of the
\* draw pile, of one hand, of the board or of the discard pile; a card of
\* the discard pile is in no hand.
C2_ExactlyOnePlace ==
    driver \in {"main", "app"} =>
        \A c \in 1..pool_size :
            /\ Count(deck, c) + Count(discard_pile, c) + Count(InPlay, c)
                 + SumOver([p \in Range(players) |-> Count(hand[p], c)],
                           Range(players)) = 1
            /\ Count(discard_pile, c) > 0 =>
                 \A p \in Range(players) : Count(hand[p], c) = 0

\* the board the guesses of the round in progress refer to
RoundBoard == IF driver = "app" THEN board_cards_info ELSE board

\* the guesses recorded in the round in progress
RoundGuesses ==
    IF driver = "app"
    THEN IF turn_phase \in {"player_guess", "scoring"}
         THEN guesses_dict(player_actions) ELSE EmptyMap
    ELSE guesses

\* C3: no recorded guess of a player who submitted a card is the board
\* position of that player's own submission.
C3_NoSelfGuess ==
    driver \in {"main", "app"} =>
        \A g \in DOMAIN RoundGuesses :
            \A k \in 0..(Len(RoundBoard) - 1) :
                At(RoundBoard, k).player = g => RoundGuesses[g] # k

\* C3 witness: an AI player and the human player, both with a card on a
\* board of three, have their guesses recorded.
C3_Witness ==
    /\ driver = "main" /\ pc = "guess"
    /\ Len(board) = 3
    /\ \E a \in DOMAIN guesses : is_ai(a)
    /\ human_player_name \in DOMAIN guesses

----------------------------------------------------------------------------
(* Properties of Game._update_scores *)

\* the board position S of the storyteller's entry
StorytellerPosition ==
    CHOOSE i \in 0..(Len(board) - 1) : At(board, i).player = Storyteller

\* the guessers whose recorded guess is S
CorrectGuessers == {g \in DOMAIN guesses : guesses[g] = StorytellerPosition}

\* the number of recorded guesses other than S on the board entry of p
FooledBy(p) ==
    Cardinality({g \in DOMAIN guesses :
                   /\ guesses[g] # StorytellerPosition
                   /\ At(board, guesses[g]).player = p})

NonStorytellers == Range(players) \ {Storyteller}

\* _update_scores has returned in this step
Scored == pc = "call" /\ pc' = "return"

\* C4: when every non-storyteller guessed and the guesses equal to S are
\* none or all of them, _update_scores leaves the storyteller's score
\* unchanged and adds 2 plus the fooling bonus to every other player; when
\* all guesses are correct every other player gains exactly 2.
C4_BucketA ==
    [][(/\ Scored
        /\ DOMAIN guesses = NonStorytellers
        /\ CorrectGuessers \in {{}, DOMAIN guesses})
       => /\ score'[Storyteller] = score[Storyteller]
          /\ \A p \in NonStorytellers :
               score'[p] = score[p] + 2 + FooledBy(p)
          /\ CorrectGuessers = DOMAIN guesses
               => \A p \in NonStorytellers : score'[p] = score[p] + 2]_vars

\* all three guesses are wrong, two of them on the same card: its owner has
\* gained 4, the storyteller nothing
C4_Witness ==
    /\ driver = "score" /\ pc = "return"
    /\ DOMAIN guesses = NonStorytellers
    /\ CorrectGuessers = {}
    /\ \E p \in NonStorytellers :
         FooledBy(p) = 2 /\ score[p] = score[Storyteller] + 4

\* the guesses of the example: storyteller A at position 1, C's card at
\* position 2, B guesses 2, C and D guess 1
ExampleRound ==
    /\ storyteller_index = 0
    /\ Len(board) = 4
    /\ At(board, 1).player = "Human 1"
    /\ At(board, 2).player = "AI 2"
    /\ guesses = [g \in {"AI 1", "AI 2", "AI 3"} |->
                    IF g = "AI 1" THEN 2 ELSE 1]

\* C5: when the correct guessers are some but not all of the guessers,
\* _update_scores adds 3 to the storyteller, 3 plus the fooling bonus to each
\* correct guesser and only the fooling bonus to a wrong guesser; in the
\* example round the deltas are A +3, B +0, C +4, D +3.
C5_BucketB ==
    [][Scored
       => /\ (CorrectGuessers # {} /\ CorrectGuessers # DOMAIN guesses)
               => /\ score'[Storyteller] = score[Storyteller] + 3
                  /\ \A p \in CorrectGuessers :
                       score'[p] = score[p] + 3 + FooledBy(p)
                  /\ \A p \in DOMAIN guesses \ CorrectGuessers :
                       score'[p] = score[p] + FooledBy(p)
          /\ ExampleRound
               => /\ score'["Human 1"] = score["Human 1"] + 3
                  /\ score'["AI 1"] = score["AI 1"]
                  /\ score'["AI 2"] = score["AI 2"] + 4
                  /\ score'["AI 3"] = score["AI 3"] + 3]_vars

\* the example round has been scored from 0 points each
C5_Witness ==
    /\ driver = "score" /\ pc = "return"
    /\ ExampleRound
    /\ score = [p \in Range(players) |->
                  IF p = "Human 1" THEN 3
                  ELSE IF p = "AI 1" THEN 0
                  ELSE IF p = "AI 2" THEN 4 ELSE 3]

\* what p gained apart from the +2 or +3 of the bucket; the bucket shows in
\* the storyteller's gain
BonusGained(p) ==
    (score'[p] - score[p])
    - (IF score'[Storyteller] = score[Storyteller] THEN 2
       ELSE IF p \in CorrectGuessers THEN 3 ELSE 0)

\* C6: in both buckets the owner of a board entry gains 1 for each recorded
\* guess that is on the entry and is not S, so k for k such guesses; correct
\* guesses give nothing, and the storyteller gains 0 or 3, never a bonus.
C6_FoolingBonus ==
    [][Scored
       => /\ \A p \in NonStorytellers : BonusGained(p) = FooledBy(p)
          /\ score'[Storyteller] - score[Storyteller] \in {0, 3}]_vars

\* bucket B with two wrong guesses on the same entry: the owner, who
\* guessed right, has gained 3 + 2 and the storyteller 3
C6_Witness ==
    /\ driver = "score" /\ pc = "return"
    /\ CorrectGuessers # DOMAIN guesses
    /\ \E p \in CorrectGuessers :
         /\ FooledBy(p) = 2
         /\ score[p] = score[Storyteller] + 2

----------------------------------------------------------------------------
(* Properties of the end of the game *)

ScoreReached == \E p \in Range(players) : score[p] >= max_score

PoolExhausted ==
    /\ \E p \in Range(players) : Len(hand[p]) < hand_size
    /\ deck = <<>>
    /\ discard_pile = <<>>

\* C7: is_game_over is true exactly in the states where some score is at
\* least max_score, or a hand is below hand_size while the draw pile and
\* the discard pile are both empty; the main.py loop has ended, and app.py
\* has reached "game_end", only in such states.
C7_TerminationCondition ==
    /\ is_game_over(score, hand, deck, discard_pile)
         <=> (ScoreReached \/ PoolExhausted)
    /\ (driver = "main" /\ pc = "done") => (ScoreReached \/ PoolExhausted)
    /\ (driver = "app" /\ turn_phase = "game_end")
         => (game_over /\ (ScoreReached \/ PoolExhausted))

\* is_game_over has returned True to the main.py loop on a score alone
C7_Witness ==
    /\ driver = "main" /\ pc = "done"
    /\ ScoreReached
    /\ ~PoolExhausted

\* C8: from the first state between two rounds in which is_game_over is
\* true, no operation changes a score and is_game_over stays true between
\* rounds.
C8_TerminationMonotonic ==
    over_scores # EmptyMap
      => /\ score = over_scores
         /\ BetweenRounds => is_game_over(score, hand, deck, discard_pile)

----------------------------------------------------------------------------
(* Properties of scores and of the storyteller's turn *)

\* C9: every score is an integer of at least 0 in every state, and no step
\* of the engine (scoring, skip, cleanup, replenish) lowers a score.
C9_ScoresNeverDecrease ==
    /\ [](\A p \in Range(players) : score[p] \in Nat)
    /\ [][\A p \in Range(players) : score'[p] >= score[p]]_vars

\* a second round is in progress with points of the first round on record
C9_Witness ==
    /\ driver \in {"main", "app"}
    /\ storyteller_index = 1
    /\ \E p \in Range(players) : score[p] >= 2
    /\ \/ pc = "guess"
       \/ turn_phase = "scoring"

\* a round, completed or skipped, ends in this step
RoundProcessed ==
    \/ /\ driver = "main"
       /\ pc \in {"loop", "guess"}
       /\ pc' = "loop"
    \/ /\ driver = "app"
       /\ \/ turn_phase = "scoring" /\ turn_phase' \in {"turn_start", "game_end"}
          \/ turn_phase = "turn_start" /\ turn_phase' = "turn_start"

\* C10: storyteller_index is in [0, N) in every state; the step that ends a
\* round, completed or skipped, sets it to (its value + 1) mod N and no
\* other step changes it.
C10_StorytellerRotation ==
    /\ [](storyteller_index \in 0..(Len(players) - 1))
    /\ [][IF RoundProcessed
          THEN storyteller_index' = (storyteller_index + 1) % Len(players)
          ELSE storyteller_index' = storyteller_index]_vars

\* the turn is back at the first player, points of a completed round on
\* record: N rounds at least have been processed
C10_Witness ==
    /\ driver \in {"main", "app"}
    /\ BetweenRounds
    /\ storyteller_index = 0
    /\ \E p \in Range(players) : score[p] > 0

----------------------------------------------------------------------------
(* Properties of failures *)

\* the engine is at the start of a round
AtTurnStart ==
    \/ driver = "main" /\ pc = "loop"
    \/ driver = "app" /\ turn_phase = "turn_start"

\* the clue of the round in progress
RoundClue == IF driver = "main" THEN current_clue ELSE session_clue

\* provide_clue is called in this step and the storyteller has no card, or
\* clue generation fails and the fallback clue is used
ClueFails ==
    /\ AtTurnStart
    /\ \/ hand[Storyteller] = <<>> /\ is_ai(Storyteller)
       \/ RoundClue' = "AI Clue"

\* C11: a step in which provide_clue fails, on an empty hand or on a failure
\* of clue generation, changes no score, advances the storyteller by one,
\* takes no card from a hand and leaves the engine at the start of a round.
C11_ClueFailureSkips ==
    [][ClueFails
       => /\ score' = score
          /\ storyteller_index' = (storyteller_index + 1) % Len(players)
          /\ \A p \in Range(players) : Len(hand'[p]) >= Len(hand[p])
          /\ AtTurnStart']_vars

\* the non-storytellers without an entry among the submissions of the round
\* of Game.play_turn in progress: their hand was empty at their turn to submit
NonSubmitters ==
    {p \in Range(Others) :
       player_submitted_card(player_submissions, p) = NoCard}

\* C12: a round of Game.play_turn in which a non-storyteller had no card to
\* submit is not aborted: it goes on through the guesses to the scoring.
C12_EmptyHandDoesNotBlock ==
    ~(/\ driver = "main"
      /\ pc = "crashed"
      /\ NonSubmitters # {})

----------------------------------------------------------------------------
(* Properties of Game._replenish_hands and of construction *)

AllHandsFull == \A p \in Range(players) : Len(hand[p]) = hand_size

\* C13: when _replenish_hands has returned, at the end of a completed or
\* skipped round, every hand has hand_size cards or the draw pile and the
\* discard pile are both empty (a discard pile that is not empty is recycled
\* when the draw pile runs out during the call).
C13_ReplenishPostcondition ==
    [][RoundProcessed
       => \/ AllHandsFull'
          \/ deck' = <<>> /\ discard_pile' = <<>>]_vars

\* C14: in every state between two rounds in which every hand has hand_size
\* cards, a call of _replenish_hands changes no hand and leaves the sizes of
\* the draw pile and of the discard pile as they are.
C14_ReplenishIdempotent ==
    (BetweenRounds /\ AllHandsFull)
      => \A r \in replenish_hands(hand, deck, discard_pile) :
           /\ r.hand = hand
           /\ Len(r.deck) = Len(deck)
           /\ Len(r.discard_pile) = Len(discard_pile)

\* Game.__init__ has returned or raised in this step
Constructed == pc = "new" /\ pc' # "new"

C16_EmptyRosterRejected ==
    [][Constructed /\ players = <<>> => pc' = "error"]_vars

\* C17: a call of _update_scores on a board without the storyteller's card
\* does not return to its caller as a call that has scored does: play_turn
\* and app.py go on to discard, replenish and rotate after a return.
C17_MissingCardIsFatal ==
    (/\ driver = "score"
     /\ \A i \in 0..(Len(board) - 1) :
          At(board, i).card # storyteller_submission.card)
      => pc # "return"

----------------------------------------------------------------------------
(* Properties of the order of the phases *)

\* the order of the spec: TurnStart, StorytellerClue, PlayerSubmit,
\* PlayerGuess, Scoring, then TurnStart or GameEnd
PhaseEdges ==
    {<<"turn_start", "storyteller_clue">>,
     <<"storyteller_clue", "player_submit">>,
     <<"player_submit", "player_guess">>,
     <<"player_guess", "scoring">>,
     <<"scoring", "turn_start">>,
     <<"scoring", "game_end">>}

\* the same order for the position of Game.play_turn, which gives the clue
\* in its first step; "crashed" is the round aborted by an exception
StepEdges ==
    {<<"loop", "submit">>, <<"submit", "guess">>, <<"guess", "loop">>,
     <<"loop", "done">>, <<"guess", "crashed">>}

\* C18 as stated: turn_phase changes along the edges of the strict order
\* only (a skipped round leaves it at "turn_start").
C18_StrictPhaseOrder_AsStated ==
    [][/\ turn_phase' # turn_phase => <<turn_phase, turn_phase'>> \in PhaseEdges
       /\ pc' # pc => <<pc, pc'>> \in StepEdges]_vars

\* C18: turn_phase changes along the edges of the strict order, or from
\* "turn_start" to "player_submit" when the storyteller is an AI player,
\* whose clue is given within the "turn_start" run; a skipped round leaves
\* it at "turn_start"; no edge leads back into a phase of the same round.
C18_StrictPhaseOrder ==
    [][/\ turn_phase' # turn_phase
            => \/ <<turn_phase, turn_phase'>> \in PhaseEdges
               \/ /\ turn_phase = "turn_start"
                  /\ turn_phase' = "player_submit"
                  /\ is_ai(Storyteller)
                  /\ session_clue' # ""
       /\ pc' # pc => <<pc, pc'>> \in StepEdges]_vars

\* the round of an AI storyteller has reached "scoring" in app.py
C18_Witness ==
    /\ driver = "app"
    /\ turn_phase = "scoring"
    /\ is_ai(Storyteller)

\* player p has an action of the kind recorded in st.session_state
Recorded(p, kind) ==
    p \in DOMAIN player_actions /\ player_actions[p].action = kind

\* C19: the guesses begin only when every non-storyteller has a recorded
\* submission or could not submit (empty hand); the scoring begins, and a
\* score changes, only when every non-storyteller has a recorded guess.
C19_FanInBarrier ==
    [][/\ (turn_phase = "player_submit" /\ turn_phase' = "player_guess")
            => \A p \in NonStorytellers :
                 Recorded(p, "submit") \/ hand[p] = <<>>
       /\ (turn_phase = "player_guess" /\ turn_phase' = "scoring")
            => \A p \in NonStorytellers : Recorded(p, "guess")
       /\ (driver = "app" /\ score' # score)
            => /\ turn_phase = "scoring"
               /\ \A p \in NonStorytellers : Recorded(p, "guess")
       /\ (pc = "submit" /\ pc' = "guess")
            => \A p \in NonStorytellers :
                 \/ player_submitted_card(player_submissions, p) # NoCard
                 \/ hand[p] = <<>>
       /\ (driver = "main" /\ score' # score)
            => /\ pc = "guess"
               /\ DOMAIN guesses = NonStorytellers]_vars

\* app.py is in "scoring" with the guess of the human player and the guess
\* of an AI player on record
C19_Witness ==
    /\ driver = "app"
    /\ turn_phase = "scoring"
    /\ Recorded("Human 1", "guess")
    /\ Recorded("AI 2", "guess")

----------------------------------------------------------------------------
(* Progress of a round *)

\* a round is in progress: the clue is given and the cleanup is not done
InRound ==
    \/ driver = "main" /\ pc \in {"submit", "guess"}
    \/ driver = "app" /\ turn_phase \in {"player_submit", "player_guess",
                                         "scoring"}

\* the card p has submitted in the round in progress, NoCard if none
SubmittedCard(p) ==
    IF driver = "main"
    THEN player_submitted_card(player_submissions, p)
    ELSE IF Recorded(p, "submit") THEN player_actions[p].card
    ELSE player_submitted_card(board_cards_info, p)

\* every non-storyteller has submitted a card or holds one to submit
AllCanSubmit ==
    \A p \in NonStorytellers : SubmittedCard(p) # NoCard \/ hand[p] # <<>>

\* C20: a started round reaches the cleanup after the scoring whatever the
\* providers answer (no answer, an unparsable or out-of-range answer, the
\* player's own card): it is not aborted and no phase is repeated forever.
C20_RoundCompletes == InRound ~> BetweenRounds

\* the same for the rounds in which every non-storyteller has a card to submit
RoundCompletesWithCards == (InRound /\ AllCanSubmit) ~> BetweenRounds

----------------------------------------------------------------------------
(* Properties of the board *)

\* the board is assembled in this step: the guesses begin
BoardAssembled ==
    \/ driver = "main" /\ pc = "submit" /\ pc' = "guess"
    \/ driver = "app" /\ turn_phase = "player_submit"
                      /\ turn_phase' = "player_guess"

\* the non-storytellers with a submission on record when the board is
\* assembled
Submitters ==
    IF driver = "main"
    THEN {player_submissions[k].player : k \in 1..Len(player_submissions)}
    ELSE ActionsOf(player_actions, "submit")

\* the card recorded as the target card of the round
TargetCard ==
    IF driver = "main" THEN storyteller_submission.card
    ELSE storyteller_submitted_card

\* the positions of board brd with an entry of player p
EntriesOf(brd, p) == {k \in 1..Len(brd) : brd[k].player = p}

\* C21: when the guesses begin the board holds the storyteller's clue card
\* exactly once, as the storyteller's entry, and exactly one entry for each
\* non-storyteller who submitted; no player owns two entries, the card of
\* an entry has left its owner's hand, and the board has 1 + (number of
\* submitters) <= N entries.
C21_BoardComposition ==
    [][BoardAssembled
       => /\ Count(CardsOf(RoundBoard'), TargetCard) = 1
          /\ \A k \in EntriesOf(RoundBoard', Storyteller) :
               RoundBoard'[k].card = TargetCard
          /\ \A p \in Submitters \cup {Storyteller} :
               Cardinality(EntriesOf(RoundBoard', p)) = 1
          /\ \A k \in 1..Len(RoundBoard') :
               /\ RoundBoard'[k].player \in Submitters \cup {Storyteller}
               /\ Count(hand'[RoundBoard'[k].player], RoundBoard'[k].card) = 0
          /\ Len(RoundBoard') = 1 + Cardinality(Submitters)
          /\ Len(RoundBoard') <= Len(players)]_vars

\* a completed round ends in this step: scoring and cleanup
RoundCompleted ==
    \/ driver = "main" /\ pc = "guess" /\ pc' = "loop"
    \/ driver = "app" /\ turn_phase = "scoring"
                      /\ turn_phase' \in {"turn_start", "game_end"}

\* the number of copies of card c in the draw pile, the discard pile and the
\* hands given
Copies(dk, disc, hnd, c) ==
    Count(dk, c) + Count(disc, c)
    + SumOver([p \in Range(players) |-> Count(hnd[p], c)], Range(players))

\* the cleanup of the step: every card of the board is put on the discard
\* pile, and only then are the hands replenished (from a draw pile that is
\* not empty nothing is recycled, so the pile has grown by the board; with
\* an empty draw pile the cards of the board are recycled with the pile);
\* the board is cleared
BoardDiscarded ==
    /\ \A c \in 1..pool_size :
         /\ Copies(deck', discard_pile', hand', c)
              = Copies(deck, discard_pile, hand, c) + Count(CardsOf(RoundBoard), c)
         /\ deck # <<>>
              => Count(discard_pile', c)
                   = Count(discard_pile, c) + Count(CardsOf(RoundBoard), c)
    /\ deck = <<>> => discard_pile' = <<>>
    /\ board' = <<>>
    /\ board_cards_info' = <<>>

BoardEmptyBetweenRounds ==
    BetweenRounds => board = <<>> /\ board_cards_info = <<>>

\* C22 as stated: the step that ends a completed round puts every card of
\* the board on the discard pile before the hands are replenished and clears
\* the board and the clue of the round; outside a round the board is empty.
C22_Cleanup_AsStated ==
    /\ [][RoundCompleted => BoardDiscarded /\ RoundClue' = ""]_vars
    /\ []BoardEmptyBetweenRounds

\* C22: the step that ends a completed round puts every card of the board
\* on the discard pile before the hands are replenished and clears the
\* board; Game.play_turn clears the clue in the same step, app.py leaves the
\* clue of the round in the session (the next "turn_start" run resets it);
\* outside a round the board is empty.
C22_Cleanup ==
    /\ [][RoundCompleted
          => /\ BoardDiscarded
             /\ driver = "main" => current_clue' = ""
             /\ driver = "app" => session_clue' = session_clue]_vars
    /\ []BoardEmptyBetweenRounds

\* app.py is between two rounds after a cleanup that recycled the discard
\* pile, the clue of the finished round still in the session
C22_Witness ==
    /\ driver = "app"
    /\ turn_phase = "turn_start"
    /\ session_clue # ""
    /\ board_cards_info = <<>>
    /\ discard_pile = <<>>
    /\ \E p \in Range(players) : score[p] > 0

----------------------------------------------------------------------------
(* Properties of the clue, the submissions and the guesses *)

\* the storyteller gives a clue in this step: the submissions begin
ClueGiven ==
    \/ driver = "main" /\ pc = "loop" /\ pc' = "submit"
    \/ driver = "app" /\ turn_phase \in {"turn_start", "storyteller_clue"}
                      /\ turn_phase' = "player_submit"

\* C23: the step in which the storyteller, human or AI, gives a clue
\* removes the chosen card from the storyteller's hand, which has one card
\* fewer, and records it as the target card of the round; the card is not
\* on the board before the board is assembled at the end of the submissions.
C23_ClueCardLeavesHand ==
    /\ [][ClueGiven
          => /\ Len(hand'[Storyteller]) = Len(hand[Storyteller]) - 1
             /\ Count(hand[Storyteller], TargetCard') > 0
             /\ Count(hand'[Storyteller], TargetCard')
                  = Count(hand[Storyteller], TargetCard') - 1
             /\ \A p \in NonStorytellers : hand'[p] = hand[p]
             /\ RoundBoard' = <<>>]_vars
    /\ []((pc = "submit" \/ turn_phase = "player_submit") => RoundBoard = <<>>)

\* the AI players whose guess is asked for next: guess_card is called with
\* the cards of the board and the card the player submitted
Guessers ==
    IF driver = "main"
    THEN IF pc = "guess" /\ loop_i < Len(Others)
         THEN {p \in {At(Others, loop_i)} :
                 /\ is_ai(p)
                 /\ player_submitted_card(player_submissions, p) # NoCard}
         ELSE {}
    ELSE IF driver = "app" /\ turn_phase = "player_guess"
         THEN PendingAI(player_actions) \ BlockedAI(player_actions)
         ELSE {}

\* the board positions other than the position of the entry of player p
OtherPositions(p) ==
    {i \in 0..(Len(RoundBoard) - 1) : At(RoundBoard, i).player # p}

\* the provider's answer cannot be used: no image was sent, nothing could be
\* parsed, the index is out of range or it is the position of the player's
\* own card
BadAnswer(cards, own, enc, resp) ==
    \/ enc = {}
    \/ parse_ai_index_response(resp, Cardinality(enc)) = NoIndex
    \/ At(cards, index_map(enc, parse_ai_index_response(resp, Cardinality(enc))))
         = own

\* C24: every recorded guess is an index of the shuffled board, in
\* [0, |board|); where guess_card is called for an AI player, an answer of
\* the provider that is missing, unparsable, out of range or the position of
\* the player's own card is replaced by one of the board positions other
\* than the player's own.
C24_GuessesAreBoardIndices ==
    /\ \A g \in DOMAIN RoundGuesses :
         RoundGuesses[g] \in 0..(Len(RoundBoard) - 1)
    /\ \A p \in Guessers :
         \A enc \in SUBSET (0..(Len(RoundBoard) - 1)), resp \in Answers :
           \E cards \in {CardsOf(RoundBoard)},
              own \in {player_submitted_card(RoundBoard, p)} :
             BadAnswer(cards, own, enc, resp)
               => \A gi \in guess_storyteller_card(cards, own, enc, resp) :
                    /\ guess_card_ai(cards, own, gi) # {}
                    /\ guess_card_ai(cards, own, gi) \subseteq OtherPositions(p)

\* C25: the cards handed to the provider for the guess of a player do not
\* hold the player's own submission, so they are |board| - 1 cards when
\* every image can be read, and the answer, an index into that list, is
\* translated to the board index by a one-to-one map that keeps the order.
C25_CompactedView ==
    \A p \in Guessers :
      \A readable \in SUBSET (0..(Len(RoundBoard) - 1)) :
        \E cards \in {CardsOf(RoundBoard)},
           own \in {player_submitted_card(RoundBoard, p)} :
         \E enc \in {prompt_images(cards, readable)} :
           /\ \A i \in enc : At(cards, i) # own
           /\ readable = 0..(Len(cards) - 1)
                => Cardinality(enc) = Len(cards) - 1
           /\ \A k \in 0..(Cardinality(enc) - 1) : index_map(enc, k) \in enc
           /\ \A k1, k2 \in 0..(Cardinality(enc) - 1) :
                k1 < k2 => index_map(enc, k1) < index_map(enc, k2)

----------------------------------------------------------------------------
(* Properties of Game.get_winner *)

\* the players no other player has more points than
TopScorers ==
    {p \in Range(players) : \A q \in Range(players) : score[q] <= score[p]}

----------------------------------------------------------------------------
(* Properties of the recycling and of a whole round *)

\* the draw pile and the discard pile _replenish_hands is called with when
\* the round in progress ends, completed or skipped, in the next step
ReplenishCalls ==
    IF driver = "main"
    THEN IF pc = "guess" /\ loop_i = Len(Others)
         THEN {[deck |-> deck,
                discard_pile |-> discard_extend(discard_pile, CardsOf(board))]}
         ELSE IF /\ pc = "loop"
                 /\ ~is_game_over(score, hand, deck, discard_pile)
                 /\ hand[Storyteller] = <<>>
              THEN {[deck |-> deck, discard_pile |-> discard_pile]}
              ELSE {}
    ELSE IF driver = "app" /\ ~game_over /\ rerun
    THEN IF turn_phase = "scoring"
         THEN {[deck |-> deck,
                discard_pile |-> discard_extend(discard_pile,
                                                CardsOf(board_cards_info))]}
         ELSE IF /\ turn_phase = "turn_start"
                 /\ is_ai(Storyteller)
              THEN {[deck |-> deck, discard_pile |-> discard_pile]}
              ELSE {}
    ELSE {}

\* C27: when _replenish_hands recycles the discard pile, the draw pile right
\* after the recycling holds exactly the cards of the former draw pile and
\* of the former discard pile, each as many times as before, and the
\* discard pile is empty.
C27_RecyclingRoundTrip ==
    \A call \in ReplenishCalls :
      (call.deck = <<>> /\ call.discard_pile # <<>>)
        => \A c \in recycle(call.deck, call.discard_pile) :
             /\ \A card \in 1..pool_size :
                  Count(c.deck, card)
                    = Count(call.deck, card) + Count(call.discard_pile, card)
             /\ Len(c.deck) = Len(call.deck) + Len(call.discard_pile)
             /\ c.discard_pile = <<>>

\* Game.play_turn is about to end a round with an empty draw pile and the
\* three cards of the board to recycle
C27_Witness ==
    /\ driver = "main" /\ pc = "guess"
    /\ \E call \in ReplenishCalls :
         call.deck = <<>> /\ Len(call.discard_pile) >= 3

\* Game.play_turn is not running: main.py is between two calls
BetweenCalls == driver = "main" /\ pc \in {"loop", "done"}

\* C28: every call of Game.play_turn that returns, after a completed or a
\* skipped round, leaves the board empty and the cards of the draw pile,
\* the discard pile and the hands together as they were before the call:
\* between two calls they are the cards of the pool, each once.
C28_RoundConservation ==
    /\ [](BetweenCalls
            => /\ board = <<>>
               /\ \A c \in 1..pool_size :
                    Copies(deck, discard_pile, hand, c) = 1
               /\ Len(deck) + Len(discard_pile) + HandCards = pool_size)
    /\ [][(BetweenCalls /\ BetweenCalls')
            => \A c \in 1..pool_size :
                 Copies(deck', discard_pile', hand', c)
                   = Copies(deck, discard_pile, hand, c)]_vars

\* play_turn has returned for every player as storyteller, with points of a
\* completed round on record and cards on the discard pile
C28_Witness ==
    /\ driver = "main" /\ pc = "loop"
    /\ storyteller_index = 0
    /\ discard_pile # <<>>
    /\ \E p \in Range(players) : score[p] > 0

----------------------------------------------------------------------------
(* Properties of a submission and of the end-of-game test *)

\* a step of the submissions: a pass of the loop of Game.play_turn, a click
\* of the human player or a run of the AI loop of "player_submit"
SubmitStep ==
    \/ driver = "main" /\ pc = "submit" /\ pc' = "submit"
    \/ driver = "app" /\ turn_phase = "player_submit"
                      /\ turn_phase' = "player_submit"

\* the submission of p is accepted in this step
Submits(p) == SubmittedCard(p) = NoCard /\ SubmittedCard(p)' # NoCard

\* the number of submissions on record for p
SubmissionsOf(p) ==
    IF driver = "main" THEN Cardinality(EntriesOf(player_submissions, p))
    ELSE IF Recorded(p, "submit") THEN 1 ELSE 0

\* C29: a step that accepts the submission of player p, whatever the
\* provider returned, removes exactly one card from the hand of p, the card
\* recorded as the one entry of p; it leaves the hands of the other players,
\* the draw pile, the discard pile and the scores as they are, and for a
\* player with an empty hand nothing changes.
C29_SubmissionEffect ==
    [][SubmitStep
       => /\ \A p \in NonStorytellers :
               IF Submits(p)
               THEN /\ Len(hand'[p]) = Len(hand[p]) - 1
                    /\ Count(hand[p], SubmittedCard(p)') > 0
                    /\ Count(hand'[p], SubmittedCard(p)')
                         = Count(hand[p], SubmittedCard(p)') - 1
                    /\ SubmissionsOf(p)' = 1
               ELSE /\ hand'[p] = hand[p]
                    /\ SubmittedCard(p)' = SubmittedCard(p)
          /\ hand'[Storyteller] = hand[Storyteller]
          /\ deck' = deck
          /\ discard_pile' = discard_pile
          /\ score' = score]_vars

\* a new round begins in this step: the storyteller is asked for a clue
\* (the round is skipped within the step if there is none)
NewRoundStarts ==
    \/ /\ driver = "main" /\ pc = "loop"
       /\ \/ pc' = "submit"
          \/ pc' = "loop" /\ storyteller_index' # storyteller_index
    \/ /\ driver = "app" /\ turn_phase = "turn_start"
       /\ \/ turn_phase' \in {"storyteller_clue", "player_submit"}
          \/ storyteller_index' # storyteller_index

\* C30: after every round, completed or skipped, the termination condition
\* is evaluated before the clue phase of a new round begins: from a state
\* between two rounds in which is_game_over holds no new round is started,
\* in the loop of main.py and in the phases of app.py.
C30_TerminationChecked ==
    [][(BetweenRounds /\ is_game_over(score, hand, deck, discard_pile))
       => ~NewRoundStarts]_vars

----------------------------------------------------------------------------
(* Further properties of Game._update_scores *)

\* the non-storytellers with a recorded guess: the participants of the round
Participants == DOMAIN guesses

\* C31: when some non-storyteller has no recorded guess, M is the number of
\* non-storytellers who did guess: _update_scores applies bucket A (no +3
\* for the storyteller) exactly when the number of correct guesses is 0 or
\* M, and then only the players who guessed receive its +2.
C31_ParticipantsCounted ==
    [][(Scored /\ Participants # NonStorytellers)
       => IF Cardinality(CorrectGuessers) \in {0, Cardinality(Participants)}
          THEN /\ score'[Storyteller] = score[Storyteller]
               /\ \A p \in Participants :
                    score'[p] = score[p] + 2 + FooledBy(p)
               /\ \A p \in NonStorytellers \ Participants :
                    score'[p] = score[p] + FooledBy(p)
          ELSE score'[Storyteller] = score[Storyteller] + 3]_vars

\* the points one call adds, computed from the storyteller, the storyteller's
\* card, the board and the guesses alone (every score taken as 0)
ScoreDeltas ==
    update_scores(board, storyteller_submission, guesses,
                  [p \in Range(players) |-> 0])

\* C32: _update_scores changes the scores only: every hand, the draw pile,
\* the discard pile, the board and storyteller_index are as before the
\* call, and the points added to each player are a function of the
\* storyteller, the storyteller's card, the board and the guesses, whatever
\* the scores were before the call.
C32_ScoringIsPure ==
    [][Scored
       => /\ UNCHANGED <<hand, deck, discard_pile, board, storyteller_index>>
          /\ \A p \in Range(players) :
               score'[p] - score[p] = ScoreDeltas[p]]_vars

\* a call returned with the storyteller at 4 points: 3 points were added
\* to a score of 1
C32_Witness ==
    /\ driver = "score" /\ pc = "return"
    /\ score[Storyteller] = 4

----------------------------------------------------------------------------
(* Properties of _call_llama_api *)

\* requests sent so far: the answered ones and the one in flight
Requests == Len(responses) + (IF api_pc = "post" THEN 1 ELSE 0)

\* a response arrived and was decoded, and it holds no text content: its
\* first choice has neither a str content nor a list content with an item
\* of type 'text', or it has no choice and no str in its completion message
WithoutText(r) ==
    /\ r.kind = "json"
    /\ IF Len(r.data.choices) > 0
       THEN LET content == r.data.choices[1]
            IN \/ content.type = "null"
               \/ /\ content.type = "list"
                  /\ \A k \in 1..Len(content.items) :
                       content.items[k].type # "text"
       ELSE r.data.completion.type # "str"

\* the response for which the code prints "Could not find standard text
\* content in API response"
NoStandardContent(r) ==
    /\ r.kind = "json"
    /\ IF Len(r.data.choices) > 0
       THEN r.data.choices[1].type \notin {"str", "list"}
       ELSE r.data.completion.type # "str"

\* the attempt ended in an exception
FailedAttempt(r) == attempt_result(r) = Raised

\* the attempt produced a str
SuccessfulAttempt(r) == attempt_result(r).kind = "str"

\* the bounds and the results of a call, for a given notion of a response
\* without text content
CallInvariant(textless(_)) ==
    driver = "api" =>
      /\ Requests <= max_retries
      /\ api_pc = "return" => api_result.kind \in {"str", "None"}
      /\ \A k \in 1..(Len(responses) - 1) : FailedAttempt(responses[k])
      /\ api_result.kind = "str" => responses # <<>>
      /\ (api_pc # "post" /\ responses # <<>>) =>
           LET last == responses[Len(responses)]
           IN /\ textless(last) =>
                   api_pc = "return" /\ api_result = None
              /\ (SuccessfulAttempt(last) /\ ~textless(last)) =>
                   api_pc = "return" /\ api_result = attempt_result(last)
              /\ (FailedAttempt(last) /\ Len(responses) = max_retries) =>
                   api_pc = "return" /\ api_result = None

\* C33: _call_llama_api sends at most max_retries requests; it returns the
\* text of the first successful attempt and sends nothing after it; it
\* returns None once the last attempt has failed, and at once when a
\* response arrives without text content; every call ends, with a text or
\* with None.
C33_BoundedCall ==
    /\ []CallInvariant(WithoutText)
    /\ <>(api_pc = "return" /\ api_result.kind \in {"str", "None"})

\* the same with None for the responses in which the code finds no standard
\* content: a list content without text item then counts as a text
CallBoundsHold ==
    /\ []CallInvariant(NoStandardContent)
    /\ <>(api_pc = "return" /\ api_result.kind \in {"str", "None"})

----------------------------------------------------------------------------
(* Properties of the states between two calls of Game.play_turn *)

\* C34: between two calls of Game.play_turn on a constructed game, no hand
\* is below hand_size while the draw pile and the discard pile are both
\* empty, so is_game_over holds there only when a score has reached
\* max_score.
C34_NoExhaustion ==
    BetweenCalls
      => /\ ~PoolExhausted
         /\ is_game_over(score, hand, deck, discard_pile) => ScoreReached

\* after a round was scored, the draw pile and the discard pile are both
\* empty and every hand is full
C34_Witness ==
    /\ BetweenCalls
    /\ \E p \in Range(players) : score[p] > 0
    /\ deck = <<>> /\ discard_pile = <<>>
    /\ AllHandsFull

\* C35: between two calls of Game.play_turn on a constructed game, every
\* hand has at most hand_size and at least hand_size - 1 cards, and a hand
\* is below hand_size only if the draw pile is empty.
C35_HandSizeBounds ==
    BetweenCalls
      => \A p \in Range(players) :
           /\ Len(hand[p]) <= hand_size
           /\ Len(hand[p]) >= hand_size - 1
           /\ Len(hand[p]) < hand_size => deck = <<>>

\* a hand of two is one card short after a round was scored
C35_Witness ==
    /\ BetweenCalls
    /\ hand_size = 2
    /\ \E p \in Range(players) : score[p] > 0
    /\ \E p \in Range(players) : Len(hand[p]) = 1

----------------------------------------------------------------------------
(* Progress of the game of main.py *)

TotalScore(sc) == SumOver(sc, Range(players))

\* Game.play_turn scores a round and returns in this step
PlayTurnCompletes == driver = "main" /\ pc = "guess" /\ pc' = "loop"

\* main.py is between two calls of play_turn and is_game_over holds
GameIsOver ==
    BetweenCalls /\ is_game_over(score, hand, deck, discard_pile)

\* C36: every round of Game.play_turn that is not skipped adds at least 2
\* to the sum of the scores, and the game of main.py, unless a round is
\* aborted by an exception, reaches a state between two rounds in which
\* is_game_over holds.
C36_Progress ==
    /\ [][PlayTurnCompletes
          => TotalScore(score') >= TotalScore(score) + 2]_vars
    /\ (driver = "main") => <>(pc = "crashed" \/ GameIsOver)

\* the game of main.py is over after rounds that added 4 points or more
\* each time
C36_Witness ==
    /\ driver = "main" /\ pc = "done"
    /\ TotalScore(score) >= 8

----------------------------------------------------------------------------
(* Properties of the scoring call of Game.play_turn *)

\* play_turn has collected the guesses and calls _update_scores next
ScoringDue == driver = "main" /\ pc = "guess" /\ loop_i = Len(Others)

\* the positions of the board that hold the storyteller's card
StorytellerCardPositions ==
    {i \in 0..(Len(board) - 1) : At(board, i).card = storyteller_submission.card}

\* C37: whenever Game.play_turn calls _update_scores the storyteller's card
\* is on the board at exactly one position, so the call never takes the
\* "storyteller card not found" branch.
C37_StorytellerCardFound ==
    ScoringDue
      => /\ Cardinality(StorytellerCardPositions) = 1
         /\ storyteller_card_index(board, storyteller_submission.card) # -1
         /\ At(board, storyteller_card_index(board,
                         storyteller_submission.card)).player = Storyteller

\* play_turn is about to score a board with a card of every player
C37_Witness ==
    /\ ScoringDue
    /\ Len(board) = Len(players)
    /\ \E p \in DOMAIN guesses : guesses[p] \in StorytellerCardPositions

\* what the step adds to the score of the storyteller of the round
StorytellerGain == score'[Storyteller] - score[Storyteller]

\* C38: in a round the score of the storyteller changes by exactly 0 or by
\* exactly 3: the scoring step adds 0 or 3 to it, never 2 and never a
\* fooling bonus, and no other step changes it.
C38_StorytellerGain ==
    [][/\ StorytellerGain \in {0, 3}
       /\ StorytellerGain # 0 => RoundCompleted]_vars

\* the first round is over and gave its storyteller 3 points while another
\* player has a fooling bonus
C38_Witness ==
    /\ BetweenRounds
    /\ storyteller_index = 1
    /\ score[players[1]] = 3
    /\ \E p \in Range(players) : score[p] \in {1, 4}

====
